---- MODULE Spec2Model ----
(***************************************************************************)
(* Microcode-driven sequencer of holee9/fsm_auto.                          *)
(*                                                                         *)
(*   sim  : the Python reference engine, test/sequencer_fsm_sim.py         *)
(*          (class SequencerFSMSim), one record holding the object fields  *)
(*   hw   : the register file of the always_ff block that                  *)
(*          test/generate_fsm.py emits (RST / IDLE / command rules)        *)
(*   fsm  : the table-dispatch simulator, generate_fsm.py (class           *)
(*          FsmSimulator), one record holding the object fields            *)
(***************************************************************************)
EXTENDS Integers, Naturals, FiniteSets, Sequences, TLC

VARIABLES
    lut_entries,   \* self.lut_entries: configured address -> entry
    sim,           \* the fields of the SequencerFSMSim object
    resets,        \* observer: consecutive latest step() calls with reset_i (at most 2)
    runs,          \* observer: countdowns completed since the entry was loaded
    from,          \* observer: state and address registers before the latest step
    hw,            \* registers after one clock edge of the emitted module
    pins,          \* observer: inputs sampled by the latest clock edge of the module
    fsm_config,    \* FsmSimulator.fsm_config: inputs, outputs and State Table
    lut_ram_config,\* FsmSimulator.lut_ram_config: schema and initial entries
    fsm,           \* the fields of the FsmSimulator object
    last,          \* observer: the latest FsmSimulator call and whether it raised
    dwell,         \* observer: steps taken in the command state since it was entered
    written        \* observer: words of the write steps in a row since RST was entered

vars == <<lut_entries, sim, resets, runs, from, hw, pins,
          fsm_config, lut_ram_config, fsm, last, dwell, written>>

----------------------------------------------------------------------------
(* Bounds of the model *)

AddressWidth == 2      \* lut_ram_config.address_width of the modelled table
address_width == 1     \* lut_ram_config.address_width of the FsmSimulator table
MaxRepeat    == 2      \* largest repeat_count of a table entry
MaxLen       == 2      \* largest data_length of a table entry
MaxCycle     == 20     \* steps followed after a reset
MaxPass      == 3      \* entries of a looping sequence

Depth == 2 ^ AddressWidth

----------------------------------------------------------------------------
(* State table *)

RST  == "RST"
IDLE == "IDLE"

States == {"RST", "IDLE", "FLUSH", "EXPOSE_TIME", "READOUT"}

CommandStates == States \ {RST, IDLE}

----------------------------------------------------------------------------
(* SequencerFSMSim *)

\* entry.get('next_address', (addr + 1) & ((1 << address_width) - 1))
entry_next_address(entry, addr) ==
    IF "next_address" \in DOMAIN entry
    THEN entry.next_address
    ELSE (addr + 1) % Depth

load_lut_entry(s, addr) ==
    IF addr \notin DOMAIN lut_entries
    THEN [s EXCEPT !.next_state   = RST,
                   !.repeat_count = 1,
                   !.data_length  = 1,
                   !.eof          = 0,
                   !.sof          = 0,
                   !.next_address = 0]
    ELSE LET entry == lut_entries[addr] IN
         [s EXCEPT !.next_state   = entry.next_state,
                   !.repeat_count = entry.repeat_count,
                   !.data_length  = entry.data_length,
                   !.eof          = entry.eof,
                   !.sof          = entry.sof,
                   !.next_address = entry_next_address(entry, addr)]

\* reset() that leaves the cycle counter alone
reset_keeping_cycle(s) ==
    LET cleared == [s EXCEPT !.current_state = RST,
                             !.lut_addr      = 0,
                             !.busy          = FALSE,
                             !.sequence_done = FALSE]
        loaded  == load_lut_entry(cleared, cleared.lut_addr)
    IN  [loaded EXCEPT !.data_length_timer   = loaded.data_length,
                       !.active_repeat_count = loaded.repeat_count,
                       !.exit_signal_latched = FALSE,
                       !.exit_signal         = FALSE]

reset(s) ==
    LET cleared == [s EXCEPT !.current_state = RST,
                             !.lut_addr      = 0,
                             !.repeat_count  = 0,
                             !.data_length   = 0,
                             !.eof           = 0,
                             !.sof           = 0,
                             !.next_address  = 0,
                             !.busy          = FALSE,
                             !.sequence_done = FALSE,
                             !.cycle         = 0]
        loaded  == load_lut_entry(cleared, cleared.lut_addr)
    IN  [loaded EXCEPT !.data_length_timer   = loaded.data_length,
                       !.active_repeat_count = loaded.repeat_count,
                       !.exit_signal_latched = FALSE,
                       !.exit_signal         = FALSE]

\* leaving RST with lut_addr left at 0, as the emitted RST rule does
step_rst_keeping_addr(s) ==
    LET loaded == load_lut_entry([s EXCEPT !.lut_addr = 0], 0)
    IN  [loaded EXCEPT !.current_state       = loaded.next_state,
                       !.data_length_timer   = loaded.data_length,
                       !.active_repeat_count = loaded.repeat_count]

\* RST state: on reset deassert, enter first command
step_rst(s) ==
    LET loaded == load_lut_entry([s EXCEPT !.lut_addr = 0], 0)
    IN  [loaded EXCEPT !.current_state       = loaded.next_state,
                       !.data_length_timer   = loaded.data_length,
                       !.active_repeat_count = loaded.repeat_count,
                       !.lut_addr            = loaded.next_address]

\* command completion that stops repeating one countdown early
step_command_one_short(s) ==
    LET counted == IF s.data_length_timer > 0
                   THEN [s EXCEPT !.data_length_timer = s.data_length_timer - 1]
                   ELSE s
    IN  IF counted.data_length_timer = 0
        THEN IF counted.active_repeat_count > 1
             THEN [counted EXCEPT !.active_repeat_count = counted.active_repeat_count - 1,
                                  !.data_length_timer   = counted.data_length]
             ELSE [counted EXCEPT !.current_state = IDLE]
        ELSE counted

\* command completion that leaves for IDLE only once the exit request is
\* latched
step_command_awaiting_exit(s) ==
    LET counted == IF s.data_length_timer > 0
                   THEN [s EXCEPT !.data_length_timer = s.data_length_timer - 1]
                   ELSE s
    IN  IF counted.data_length_timer = 0
        THEN IF counted.active_repeat_count > 0
             THEN [counted EXCEPT !.active_repeat_count = counted.active_repeat_count - 1,
                                  !.data_length_timer   = counted.data_length]
             ELSE IF counted.exit_signal_latched
             THEN [counted EXCEPT !.current_state = IDLE]
             ELSE counted
        ELSE counted

\* Command execution state (not IDLE)
step_command(s) ==
    LET counted == IF s.data_length_timer > 0
                   THEN [s EXCEPT !.data_length_timer = s.data_length_timer - 1]
                   ELSE s
    IN  IF counted.data_length_timer = 0
        THEN IF counted.active_repeat_count > 0
             THEN [counted EXCEPT !.active_repeat_count = counted.active_repeat_count - 1,
                                  !.data_length_timer   = counted.data_length]
             ELSE [counted EXCEPT !.current_state = IDLE]
        ELSE counted

\* IDLE load that counts the iteration about to run off the repeat counter
step_idle_predecrement(s) ==
    LET moved  == IF s.eof = 1 /\ s.exit_signal_latched
                  THEN [s EXCEPT !.lut_addr            = (s.lut_addr + 1) % Depth,
                                 !.sequence_done       = TRUE,
                                 !.exit_signal_latched = FALSE]
                  ELSE [s EXCEPT !.lut_addr      = s.next_address,
                                 !.sequence_done = FALSE]
        loaded == load_lut_entry(moved, moved.lut_addr)
    IN  [loaded EXCEPT !.current_state       = loaded.next_state,
                       !.data_length_timer   = loaded.data_length,
                       !.active_repeat_count = loaded.repeat_count - 1]

\* IDLE state: always load next command
step_idle(s) ==
    LET moved  == IF s.eof = 1 /\ s.exit_signal_latched
                  THEN [s EXCEPT !.lut_addr            = (s.lut_addr + 1) % Depth,
                                 !.sequence_done       = TRUE,
                                 !.exit_signal_latched = FALSE]
                  ELSE [s EXCEPT !.lut_addr      = s.next_address,
                                 !.sequence_done = FALSE]
        loaded == load_lut_entry(moved, moved.lut_addr)
    IN  [loaded EXCEPT !.current_state       = loaded.next_state,
                       !.data_length_timer   = loaded.data_length,
                       !.active_repeat_count = loaded.repeat_count]

\* step() that samples exit_signal instead of latching it
step_unlatched(s, reset_in, exit_signal) ==
    LET entered == [s EXCEPT !.cycle               = s.cycle + 1,
                             !.sequence_done       = FALSE,
                             !.exit_signal_latched = exit_signal,
                             !.exit_signal         = exit_signal]
    IN  IF reset_in THEN reset(entered)
        ELSE IF entered.current_state = RST THEN step_rst(entered)
        ELSE IF entered.current_state # IDLE THEN step_command(entered)
        ELSE step_idle(entered)

\* step() that does not clear sequence_done on entry
step_sticky_done(s, reset_in, exit_signal) ==
    LET entered == [s EXCEPT !.cycle               = s.cycle + 1,
                             !.exit_signal_latched = (s.exit_signal_latched \/ exit_signal),
                             !.exit_signal         = exit_signal]
    IN  IF reset_in THEN reset(entered)
        ELSE IF entered.current_state = RST THEN step_rst(entered)
        ELSE IF entered.current_state # IDLE THEN step_command(entered)
        ELSE [step_idle(entered) EXCEPT
                 !.sequence_done = (entered.eof = 1 /\ entered.exit_signal_latched)
                                       \/ entered.sequence_done]

step(s, reset_in, exit_signal) ==
    LET entered == [s EXCEPT !.cycle               = s.cycle + 1,
                             !.sequence_done       = FALSE,
                             !.exit_signal_latched = (s.exit_signal_latched \/ exit_signal),
                             !.exit_signal         = exit_signal]
    IN  IF reset_in THEN reset(entered)
        ELSE IF entered.current_state = RST THEN step_rst(entered)
        ELSE IF entered.current_state # IDLE THEN step_command(entered)
        ELSE step_idle(entered)

\* the object before reset() has assigned its fields
Blank ==
    [current_state |-> RST, lut_addr |-> 0, repeat_count |-> 0, data_length |-> 0,
     eof |-> 0, sof |-> 0, next_address |-> 0, next_state |-> RST, busy |-> FALSE,
     sequence_done |-> FALSE, cycle |-> 0, data_length_timer |-> 0,
     active_repeat_count |-> 0, exit_signal_latched |-> FALSE, exit_signal |-> FALSE]

----------------------------------------------------------------------------
(* The module emitted by generate_systemverilog_fsm_with_lut_ram *)

RECURSIVE bit_length(_)
bit_length(n) == IF n <= 0 THEN 0 ELSE 1 + bit_length(n \div 2)

RECURSIVE max_field(_, _)
max_field(addrs, name) ==
    IF addrs = {} THEN 0
    ELSE LET a    == CHOOSE x \in addrs : TRUE
             rest == max_field(addrs \ {a}, name)
             v    == lut_entries[a][name]
         IN  IF v > rest THEN v ELSE rest

max_data_length  == max_field(DOMAIN lut_entries, "data_length")
max_repeat_count == max_field(DOMAIN lut_entries, "repeat_count")

data_length_width ==
    IF max_data_length > 0 THEN bit_length(max_data_length - 1) ELSE 1

repeat_count_width ==
    IF max_repeat_count > 0 THEN bit_length(max_repeat_count - 1) ELSE 1

\* value kept by a register declared logic [width-1:0]; a width of 0 declares
\* the range [-1:0], which is two bits
truncate(v, width) == v % (2 ^ (IF width = 0 THEN 2 ELSE width))

\* the table image held in lut_ram: the configured entries, and for the
\* other addresses the word the reference engine loads there
lut_ram(a) ==
    LET w == load_lut_entry(Blank, a)
    IN  [next_state |-> w.next_state, repeat_count |-> w.repeat_count,
         data_length |-> w.data_length, eof |-> w.eof, sof |-> w.sof]

\* lut_ram[index]: an index past the declared range reads an undefined word
lut_read(index, undefined) ==
    IF index \in 0 .. Depth - 1 THEN lut_ram(index) ELSE undefined

\* states for which a completion signal is emitted (a case item exists)
has_completion_signal(state) == state \in {"FLUSH", "EXPOSE_TIME", "READOUT"}

\* registers loaded from a word: state, timer and repeat counter
sv_load(r, addr, w) ==
    [r EXCEPT !.current_state_reg   = w.next_state,
              !.lut_addr_reg        = addr % Depth,
              !.data_length_timer   = truncate(w.data_length, data_length_width),
              !.active_repeat_count = truncate(w.repeat_count, repeat_count_width)]

sv_reset(r) ==
    [r EXCEPT !.current_state_reg   = RST,
              !.lut_addr_reg        = 0,
              !.data_length_timer   = 0,
              !.active_repeat_count = 0]

sv_rst(r) == sv_load(r, 0, lut_ram(0))

sv_idle(r, exit_signal_i, undefined) ==
    LET current == lut_ram(r.lut_addr_reg)
        next    == lut_read(r.lut_addr_reg + 1, undefined)
    IN  IF r.active_repeat_count > 0
        THEN [r EXCEPT !.active_repeat_count = r.active_repeat_count - 1,
                       !.current_state_reg   = current.next_state,
                       !.data_length_timer   = truncate(current.data_length, data_length_width)]
        ELSE IF current.repeat_count = 0 /\ exit_signal_i
        THEN sv_load(r, r.lut_addr_reg + 1, next)
        ELSE IF current.eof = 1
        THEN sv_load(r, 0, lut_ram(0))
        ELSE sv_load(r, r.lut_addr_reg + 1, next)

\* command rule that leaves for IDLE as soon as the timer is 0
sv_command_on_timeout(r, completion_signal) ==
    IF r.data_length_timer > 0
    THEN [r EXCEPT !.data_length_timer = r.data_length_timer - 1]
    ELSE [r EXCEPT !.current_state_reg = IDLE]

sv_command(r, completion_signal) ==
    IF r.data_length_timer > 0
    THEN [r EXCEPT !.data_length_timer = r.data_length_timer - 1]
    ELSE IF completion_signal
    THEN [r EXCEPT !.current_state_reg = IDLE]
    ELSE r

sv_clock(r, reset_in, exit_signal_i, completion_signal, undefined) ==
    IF reset_in THEN sv_reset(r)
    ELSE IF r.current_state_reg = RST THEN sv_rst(r)
    ELSE IF r.current_state_reg = IDLE THEN sv_idle(r, exit_signal_i, undefined)
    ELSE IF has_completion_signal(r.current_state_reg)
    THEN sv_command(r, completion_signal)
    ELSE sv_reset(r)

sequence_done_o(r) ==
    LET current == lut_ram(r.lut_addr_reg)
    IN  /\ r.current_state_reg = IDLE
        /\ current.eof = 1
        /\ r.active_repeat_count = 0
        /\ current.repeat_count = 0

\* the register file of the emitted module holding the engine's registers
RegsOf(s) ==
    [current_state_reg   |-> s.current_state,
     lut_addr_reg        |-> s.lut_addr,
     data_length_timer   |-> s.data_length_timer,
     active_repeat_count |-> s.active_repeat_count]

----------------------------------------------------------------------------
(* FsmSimulator of generate_fsm.py *)

ram_depth == 2 ^ address_width

\* Python values held by input pins: the strings '0' and '1', ints, py_none
py_str(d) == [type |-> "str", value |-> d]
py_int(n) == [type |-> "int", value |-> n]
py_none == [type |-> "none", value |-> 0]

\* lut_ram_config.param_fields, least significant field first
param_fields ==
    << [name |-> "repeat_count", width |-> 8],
       [name |-> "data_length",  width |-> 16],
       [name |-> "eof",          width |-> 1],
       [name |-> "sof",          width |-> 1] >>

ParamNames == { param_fields[i].name : i \in 1 .. Len(param_fields) }

\* sum of the widths of the first k fields
RECURSIVE sum_widths(_)
sum_widths(k) == IF k = 0 THEN 0 ELSE sum_widths(k - 1) + param_fields[k].width

\* a condition string "<name> == <literal>" and the condition string "True"
Equals(name, literal) == [op |-> "==", name |-> name, literal |-> literal]
Always == [op |-> "True"]

\* a state of fsm_config.yaml: leave for IDLE on task_done_i, else stay
state_entry(name, outputs, literal) ==
    [name |-> name, outputs |-> outputs,
     transitions |->
        IF name = IDLE THEN << >>
        ELSE << [condition |-> Equals("task_done_i", literal), next_state |-> IDLE],
                [condition |-> Always, next_state |-> name] >>]

BusyOutputs == [busy_o |-> "1", sequence_done_o |-> "0"]
IdleOutputs == [busy_o |-> "0", sequence_done_o |-> "0", current_eof_o |-> "0"]

\* the State Table, conditions comparing task_done_i with the given literal
states_data(literal) ==
    << state_entry(IDLE, IdleOutputs, literal),
       state_entry(RST, BusyOutputs, literal),
       state_entry("FLUSH", BusyOutputs, literal),
       state_entry("EXPOSE_TIME", BusyOutputs, literal) >>

SequencerInputs == {"clk", "reset_n", "command_id_i", "task_done_i"}
AccessInputs == {"lut_access_en_i", "lut_read_write_mode_i", "lut_write_data_i"}

\* an fsm_config.yaml: the access pins declared as inputs or not, the
\* conditions written as task_done_i == '1' or as task_done_i == 1
Config(access, literal) ==
    [state_encoding_width |-> 3,
     inputs  |-> SequencerInputs \cup access,
     outputs |-> {"current_state_o", "busy_o", "sequence_done_o"},
     states  |-> states_data(literal)]

Configs ==
    { Config(access, literal) :
      access \in {{}, AccessInputs}, literal \in {py_str(1), py_int(1)} }

state_names(cfg) == { cfg.states[i].name : i \in 1 .. Len(cfg.states) }

\* self.states[name]
state_of(cfg, name) ==
    cfg.states[CHOOSE i \in 1 .. Len(cfg.states) : cfg.states[i].name = name]

entry_params(entry) ==
    [n \in ParamNames |-> IF n \in DOMAIN entry THEN entry[n] ELSE 0]

RECURSIVE load_entries(_, _)
load_entries(ram_model, entries) ==
    IF entries = << >> THEN ram_model
    ELSE LET entry == Head(entries)
         IN  load_entries(
                 IF entry.address < ram_depth
                 THEN (entry.address :> [next_state |-> entry.next_state,
                                         params |-> entry_params(entry)]) @@ ram_model
                 ELSE ram_model,
                 Tail(entries))

initialize_lut_ram_model(lut_cfg) ==
    load_entries([a \in 0 .. ram_depth - 1 |->
                     [next_state |-> IDLE, params |-> [n \in ParamNames |-> 0]]],
                 lut_cfg.lut_entries)

\* FsmSimulator.__init__
FsmSimulator(cfg, lut_cfg) ==
    [current_state_name   |-> IDLE,
     lut_ram_model        |-> initialize_lut_ram_model(lut_cfg),
     current_inputs       |-> [n \in cfg.inputs |-> py_int(0)],
     current_outputs      |-> [n \in cfg.outputs |-> "0"],
     current_param_values |-> [n \in ParamNames |-> 0],
     lut_current_addr     |-> 0]

set_inputs(f, kwargs) ==
    [f EXCEPT !.current_inputs =
        [k \in DOMAIN @ |-> IF k \in DOMAIN kwargs THEN kwargs[k] ELSE @[k]]]

\* dict.get(key, default)
get(inputs, key, default) == IF key \in DOMAIN inputs THEN inputs[key] ELSE default

\* Python's == between two pin values or literals
py_eq(a, b) ==
    IF a.type = "str" \/ b.type = "str" \/ a.type = "none" \/ b.type = "none"
    THEN a.type = b.type /\ a.value = b.value
    ELSE a.value = b.value

\* the value eval() sees for an input: '0' and '1' become False and True
eval_scope(v) ==
    IF v.type = "str" /\ v.value \in {0, 1} THEN [type |-> "bool", value |-> v.value]
    ELSE v

evaluate_condition(f, condition_expr) ==
    IF condition_expr.op = "True" THEN TRUE
    ELSE /\ condition_expr.name \in DOMAIN f.current_inputs
         /\ py_eq(eval_scope(f.current_inputs[condition_expr.name]),
                  condition_expr.literal)

RECURSIVE bin(_)
bin(n) ==
    IF n < 2 THEN (IF n = 1 THEN "1" ELSE "0")
    ELSE bin(n \div 2) \o (IF n % 2 = 1 THEN "1" ELSE "0")

RECURSIVE zfill(_, _)
zfill(s, width) == IF Len(s) >= width THEN s ELSE zfill("0" \o s, width)

get_state_encoding(cfg, state_name) ==
    LET idx == CHOOSE i \in 1 .. Len(cfg.states) : cfg.states[i].name = state_name
    IN  zfill(bin(idx - 1), cfg.state_encoding_width)

write_lut_ram(cfg, f, address, next_state_name, params_dict) ==
    IF address < ram_depth
    THEN [f EXCEPT !.lut_ram_model =
            (address :> [next_state |-> IF next_state_name \in state_names(cfg)
                                        THEN next_state_name ELSE IDLE,
                         params |-> entry_params(params_dict)]) @@ @]
    ELSE f

\* the write-mode unpack of lut_write_data_i: next_state from the top bits
next_state_from_data(cfg, write_data_int) ==
    LET next_s_enc_val == write_data_int \div (2 ^ sum_widths(Len(param_fields)))
    IN  IF next_s_enc_val < Len(cfg.states)
        THEN cfg.states[next_s_enc_val + 1].name
        ELSE IDLE

\* the write-mode unpack of lut_write_data_i: the fields, lowest first
params_from_data(write_data_int) ==
    [n \in ParamNames |->
        LET k == CHOOSE i \in 1 .. Len(param_fields) : param_fields[i].name = n
        IN  (write_data_int \div (2 ^ sum_widths(k - 1))) % (2 ^ param_fields[k].width)]

\* Python's | on two non-negative integers
RECURSIVE bit_or(_, _)
bit_or(a, b) ==
    IF a = 0 THEN b
    ELSE IF b = 0 THEN a
    ELSE (IF a % 2 = 1 \/ b % 2 = 1 THEN 1 ELSE 0) + 2 * bit_or(a \div 2, b \div 2)

\* sum of the widths of the last k fields
RECURSIVE sum_widths_reversed(_)
sum_widths_reversed(k) ==
    IF k = 0 THEN 0
    ELSE sum_widths_reversed(k - 1) + param_fields[Len(param_fields) + 1 - k].width

\* the word get_lut_ram_initial_data_sv_format builds for one entry: the
\* fields taken in reversed(param_fields) order and shifted to the running
\* bit position, the index of next_state (IDLE's for an unknown name) above
\* them, all joined with |
total_data_value(cfg, entry) ==
    LET next_state_encoding ==
            IF entry.next_state \in state_names(cfg)
            THEN (CHOOSE i \in 1 .. Len(cfg.states) :
                      cfg.states[i].name = entry.next_state) - 1
            ELSE (CHOOSE i \in 1 .. Len(cfg.states) : cfg.states[i].name = IDLE) - 1
        RECURSIVE sv_combined_params(_)
        sv_combined_params(k) ==
            IF k = 0 THEN 0
            ELSE bit_or(sv_combined_params(k - 1),
                        entry_params(entry)[param_fields[Len(param_fields) + 1 - k].name]
                            * (2 ^ sum_widths_reversed(k - 1)))
    IN  bit_or(next_state_encoding * (2 ^ sum_widths_reversed(Len(param_fields))),
               sv_combined_params(Len(param_fields)))

\* the list of (address, word) pairs, one per entry of lut_entries
get_lut_ram_initial_data_sv_format(cfg, lut) ==
    [i \in 1 .. Len(lut.lut_entries) |->
        << lut.lut_entries[i].address, total_data_value(cfg, lut.lut_entries[i]) >>]

\* the RST read/write logic that increments the address without wrapping
lut_access_unwrapped(cfg, f) ==
    IF /\ f.current_state_name = RST
       /\ get(f.current_inputs, "lut_access_en_i", py_none) = py_str(1)
    THEN [f EXCEPT !.lut_current_addr = f.lut_current_addr + 1]
    ELSE f

\* the RST read/write logic that stores lut_write_data_i in read mode too
lut_access_writing_on_read(cfg, f) ==
    IF /\ f.current_state_name = RST
       /\ get(f.current_inputs, "lut_access_en_i", py_none) = py_str(1)
    THEN LET write_data_int == get(f.current_inputs, "lut_write_data_i", py_int(0)).value
             accessed == write_lut_ram(cfg, f, f.lut_current_addr,
                                       next_state_from_data(cfg, write_data_int),
                                       params_from_data(write_data_int))
         IN  [accessed EXCEPT !.lut_current_addr = (f.lut_current_addr + 1) % ram_depth]
    ELSE f

\* the RST read/write logic that also loads the written fields into the
\* parameter registers
lut_access_loading_params(cfg, f) ==
    IF /\ f.current_state_name = RST
       /\ get(f.current_inputs, "lut_access_en_i", py_none) = py_str(1)
    THEN LET write_data_int == get(f.current_inputs, "lut_write_data_i", py_int(0)).value
             accessed ==
                IF get(f.current_inputs, "lut_read_write_mode_i", py_none) = py_str(1)
                THEN [write_lut_ram(cfg, f, f.lut_current_addr,
                                    next_state_from_data(cfg, write_data_int),
                                    params_from_data(write_data_int))
                        EXCEPT !.current_param_values = params_from_data(write_data_int)]
                ELSE f
         IN  [accessed EXCEPT !.lut_current_addr = (f.lut_current_addr + 1) % ram_depth]
    ELSE f

\* the RST read/write logic that leaves the address where it is
lut_access_holding_addr(cfg, f) ==
    IF /\ f.current_state_name = RST
       /\ get(f.current_inputs, "lut_access_en_i", py_none) = py_str(1)
       /\ get(f.current_inputs, "lut_read_write_mode_i", py_none) = py_str(1)
    THEN LET write_data_int == get(f.current_inputs, "lut_write_data_i", py_int(0)).value
         IN  write_lut_ram(cfg, f, f.lut_current_addr,
                           next_state_from_data(cfg, write_data_int),
                           params_from_data(write_data_int))
    ELSE f

\* step(): LUT RAM R/W logic controlled by RST state
lut_access(cfg, f) ==
    IF /\ f.current_state_name = RST
       /\ get(f.current_inputs, "lut_access_en_i", py_none) = py_str(1)
    THEN LET write_data_int == get(f.current_inputs, "lut_write_data_i", py_int(0)).value
             accessed ==
                IF get(f.current_inputs, "lut_read_write_mode_i", py_none) = py_str(1)
                THEN write_lut_ram(cfg, f, f.lut_current_addr,
                                   next_state_from_data(cfg, write_data_int),
                                   params_from_data(write_data_int))
                ELSE f
         IN  [accessed EXCEPT !.lut_current_addr = (f.lut_current_addr + 1) % ram_depth]
    ELSE f

\* the next_state of the first transition whose condition holds, else IDLE
RECURSIVE first_transition(_, _)
first_transition(f, transitions) ==
    IF transitions = << >> THEN IDLE
    ELSE IF evaluate_condition(f, Head(transitions).condition)
    THEN Head(transitions).next_state
    ELSE first_transition(f, Tail(transitions))

\* the next state logic whose IDLE lookup leaves the parameter registers
\* alone
next_state_logic_keeping_params(cfg, f) ==
    IF f.current_state_name = IDLE
    THEN LET cmd_id == get(f.current_inputs, "command_id_i", py_int(0)).value
         IN  [next_state_name |-> IF cmd_id \in DOMAIN f.lut_ram_model
                                  THEN f.lut_ram_model[cmd_id].next_state ELSE IDLE,
              params |-> f.current_param_values]
    ELSE [next_state_name |-> first_transition(f, state_of(cfg, f.current_state_name).transitions),
          params |-> f.current_param_values]

\* step(): determine next state logic; IDLE looks command_id_i up in the table
next_state_logic(cfg, f) ==
    IF f.current_state_name = IDLE
    THEN LET cmd_id == get(f.current_inputs, "command_id_i", py_int(0)).value
         IN  IF cmd_id \in DOMAIN f.lut_ram_model
             THEN [next_state_name |-> f.lut_ram_model[cmd_id].next_state,
                   params |-> f.lut_ram_model[cmd_id].params]
             ELSE [next_state_name |-> IDLE, params |-> f.current_param_values]
    ELSE [next_state_name |-> first_transition(f, state_of(cfg, f.current_state_name).transitions),
          params |-> f.current_param_values]

\* a condition as the emitted always_comb block tests it: the pin carries
\* the bit the condition names
sv_condition(f, condition_expr) ==
    IF condition_expr.op = "True" THEN TRUE
    ELSE /\ condition_expr.name \in DOMAIN f.current_inputs
         /\ f.current_inputs[condition_expr.name].value = condition_expr.literal.value

\* the emitted ifs of a state, one after the other: the last one that
\* holds assigns next_state
RECURSIVE sv_transitions(_, _, _)
sv_transitions(f, transitions, next_state) ==
    IF transitions = << >> THEN next_state
    ELSE sv_transitions(f, Tail(transitions),
                        IF sv_condition(f, Head(transitions).condition)
                        THEN Head(transitions).next_state
                        ELSE next_state)

\* next_state of the emitted always_comb block; undefined is what a read of
\* lut_ram outside its depth gives
always_comb_next_state(cfg, f, undefined) ==
    IF f.current_state_name = IDLE
    THEN LET command_id_i == get(f.current_inputs, "command_id_i", py_int(0)).value
         IN  IF command_id_i \in 0 .. ram_depth - 1
             THEN f.lut_ram_model[command_id_i].next_state
             ELSE undefined
    ELSE LET transitions == state_of(cfg, f.current_state_name).transitions
             explicit_idle_transition_found ==
                \E i \in 1 .. Len(transitions) : transitions[i].next_state = IDLE
         IN  IF explicit_idle_transition_found
             THEN sv_transitions(f, transitions, f.current_state_name)
             ELSE IDLE

\* entering RST that leaves the LUT RAM address where it is
enter_rst_keeping_addr(f, next_state_name) == f

\* step(): reset lut_current_addr when entering RST
enter_rst(f, next_state_name) ==
    IF next_state_name = RST /\ f.current_state_name # RST
    THEN [f EXCEPT !.lut_current_addr = 0]
    ELSE f

\* step(): Moore outputs of the current state, then the state's configured
\* outputs written over them; no current_<param>_o output is declared
update_outputs(cfg, f, next_state_name) ==
    LET hard == [current_state_o |-> get_state_encoding(cfg, f.current_state_name),
                 busy_o          |-> IF f.current_state_name # IDLE THEN "1" ELSE "0",
                 sequence_done_o |-> IF /\ f.current_state_name = "EXPOSE_TIME"
                                        /\ next_state_name = IDLE
                                        /\ f.current_param_values["eof"] = 1
                                     THEN "1" ELSE "0"] @@ f.current_outputs
        configured == state_of(cfg, f.current_state_name).outputs
    IN  [f EXCEPT !.current_outputs =
            [k \in DOMAIN hard |->
                IF k \in DOMAIN configured THEN configured[k] ELSE hard[k]]]

\* self.states[self.current_state_name] raises KeyError
step_raises(cfg, f) == f.current_state_name \notin state_names(cfg)

\* FsmSimulator.step
fsm_step(cfg, f) ==
    IF step_raises(cfg, f) THEN f
    ELSE LET accessed == lut_access(cfg, f)
             decided  == next_state_logic(cfg, accessed)
             loaded   == [accessed EXCEPT !.current_param_values = decided.params]
             rewound  == enter_rst(loaded, decided.next_state_name)
             driven   == update_outputs(cfg, rewound, decided.next_state_name)
         IN  [driven EXCEPT !.current_state_name = decided.next_state_name]

----------------------------------------------------------------------------
(* Tables the engine is constructed with *)

EntryStates == {"RST", "IDLE", "FLUSH", "EXPOSE_TIME"}

\* values of an explicit next_address key: a jump back, and one past the table
ExplicitAddresses == {0, Depth}

PlainEntries(states, sof) ==
    [next_state : states, repeat_count : 0 .. MaxRepeat,
     data_length : 0 .. MaxLen, eof : {0, 1}, sof : {sof}]

JumpEntries(states, sof) ==
    [next_state : states, repeat_count : 0 .. MaxRepeat,
     data_length : 0 .. MaxLen, eof : {0, 1}, sof : {sof},
     next_address : ExplicitAddresses]

FirstEntries == PlainEntries(EntryStates, 1) \cup JumpEntries(EntryStates, 1)

SecondEntries ==
    [next_state : {"IDLE", "READOUT"}, repeat_count : 0 .. MaxRepeat,
     data_length : {1}, eof : {0, 1}, sof : {0}]

\* nothing configured, only address 1, only address 0, or addresses 0 and 1
Tables ==
    {<< >>}
        \cup { (1 :> e1) : e1 \in SecondEntries }
        \cup { (0 :> e0) : e0 \in FirstEntries }
        \cup { (0 :> e0) @@ (1 :> e1) : e0 \in FirstEntries, e1 \in SecondEntries }

\* the command of the i-th entry of a looping sequence
PassState(i) ==
    IF i % 3 = 0 THEN "FLUSH" ELSE IF i % 3 = 1 THEN "EXPOSE_TIME" ELSE "READOUT"

\* sequences of n entries at addresses 0 .. n-1, eof = 1 on the last one
\* only, every entry with the same data_length
LoopTables(n) ==
    { [a \in 0 .. n - 1 |->
          [next_state |-> PassState(a), repeat_count |-> rc[a],
           data_length |-> dl, eof |-> IF a = n - 1 THEN 1 ELSE 0,
           sof |-> IF a = 0 THEN 1 ELSE 0]] :
      rc \in [0 .. n - 1 -> 0 .. MaxRepeat], dl \in 0 .. MaxLen }

AllLoopTables == UNION { LoopTables(n) : n \in 1 .. MaxPass }

\* words an out-of-range lut_ram read may return
UndefinedWords ==
    [next_state : {"RST", "FLUSH"}, repeat_count : {0},
     data_length : {0}, eof : {0}, sof : {0}]

\* tables both realizations are clocked on
DualTables == { (0 :> e0) : e0 \in FirstEntries } \cup LoopTables(2)

HwIdle ==
    [current_state_reg |-> RST, lut_addr_reg |-> 0, data_length_timer |-> 0,
     active_repeat_count |-> 0, sequence_done_o |-> FALSE]

\* the module's inputs held low
PinsLow == [reset_i |-> FALSE, exit_signal_i |-> FALSE, completion_signal |-> FALSE]

\* entries of fsm_lut_ram_data.yaml
RstEntry ==
    [address |-> 0, next_state |-> RST, repeat_count |-> 1, data_length |-> 1,
     eof |-> 0, sof |-> 1]
ExposeEntry ==
    [address |-> ram_depth - 1, next_state |-> "EXPOSE_TIME", repeat_count |-> 1, eof |-> 1]
UnknownEntry ==
    [address |-> 0, next_state |-> "AED_DETECT", repeat_count |-> 1, data_length |-> 0,
     eof |-> 0, sof |-> 0]
OutsideEntry ==
    [address |-> ram_depth, next_state |-> "FLUSH", repeat_count |-> 1, data_length |-> 0,
     eof |-> 0, sof |-> 0]
BelowEntry ==
    [address |-> -1, next_state |-> "FLUSH", repeat_count |-> 1, data_length |-> 0,
     eof |-> 0, sof |-> 0]

\* the lut_entries lists FsmSimulator is constructed with
LutFiles ==
    { << >>, <<RstEntry>>, <<RstEntry, ExposeEntry>>, <<UnknownEntry>>,
      <<RstEntry, OutsideEntry>>, <<RstEntry, BelowEntry>> }

LutConfig(entries) ==
    [address_width |-> address_width, param_fields |-> param_fields,
     lut_entries |-> entries]

\* the word of a state encoding and parameter values: the encoding above
\* the fields, the fields lowest first
lut_data_word(encoding, params) ==
    LET RECURSIVE combined(_)
        combined(k) ==
            IF k = 0 THEN 0
            ELSE combined(k - 1) + params[param_fields[k].name] * (2 ^ sum_widths(k - 1))
    IN  encoding * (2 ^ sum_widths(Len(param_fields))) + combined(Len(param_fields))

EncodingOf(name) ==
    (CHOOSE i \in 1 .. Len(states_data(py_str(1))) : states_data(py_str(1))[i].name = name) - 1

\* values driven on lut_write_data_i: FLUSH, and an encoding that names no
\* state
WriteWords ==
    { lut_data_word(EncodingOf("FLUSH"),
                    [repeat_count |-> 1, data_length |-> 0, eof |-> 0, sof |-> 1]),
      lut_data_word(Len(states_data(py_str(1))),
                    [repeat_count |-> 0, data_length |-> 1, eof |-> 0, sof |-> 0]) }

\* set_inputs(...) with every access pin low and no command
Quiet ==
    [command_id_i |-> py_int(0), task_done_i |-> py_str(0),
     lut_access_en_i |-> py_str(0), lut_read_write_mode_i |-> py_str(0),
     lut_write_data_i |-> py_int(0)]

\* the keyword arguments of the set_inputs calls
Kwargs ==
    { [Quiet EXCEPT !.command_id_i = py_int(c)] : c \in {0, ram_depth - 1, ram_depth} }
        \cup { [Quiet EXCEPT !.task_done_i = py_str(1)] }
        \cup { [Quiet EXCEPT !.lut_access_en_i = py_str(1), !.task_done_i = d] :
                 d \in {py_str(0), py_str(1)} }
        \cup { [Quiet EXCEPT !.lut_access_en_i = py_str(1),
                             !.lut_read_write_mode_i = py_str(1),
                             !.lut_write_data_i = py_int(w)] : w \in WriteWords }

\* no call made yet
Created == [op |-> "__init__", raised |-> FALSE]

\* no run of write steps is under way
NoStream == [open |-> FALSE, words |-> << >>, table |-> << >>]

\* an FsmSimulator of the shipped input list, constructed and left alone
Shelved ==
    /\ fsm_config = Config({}, py_str(1))
    /\ lut_ram_config = LutConfig(<<RstEntry>>)
    /\ fsm = FsmSimulator(fsm_config, lut_ram_config)
    /\ last = Created
    /\ written = NoStream

----------------------------------------------------------------------------
(* Behaviour *)

\* SequencerFSMSim.__init__: the tables are read, then reset() is called
Constructed(tables) ==
    /\ lut_entries \in tables
    /\ sim = reset(Blank)
    /\ resets = 0
    /\ runs = 0
    /\ dwell = 0
    /\ from = [state |-> RST, addr |-> 0]

\* a countdown of the loaded entry completes in this step: the step starts in
\* a command state and the timer is 0 after the decrement
completes(s) ==
    /\ s.current_state \notin {RST, IDLE}
    /\ s.data_length_timer <= 1

Observe(s, reset_in) ==
    IF reset_in \/ s.current_state \in {RST, IDLE} THEN 0
    ELSE IF completes(s) THEN runs + 1
    ELSE runs

\* one call of step(reset_i, exit_signal)
Call(reset_in, exit_signal) ==
    /\ reset_in \/ sim.cycle < MaxCycle
    /\ sim' = step(sim, reset_in, exit_signal)
    /\ resets' = (IF ~reset_in THEN 0 ELSE IF resets = 0 THEN 1 ELSE 2)
    /\ runs' = Observe(sim, reset_in)
    /\ dwell' = (IF reset_in \/ sim.current_state \in {RST, IDLE} THEN 0 ELSE dwell + 1)
    /\ from' = [state |-> sim.current_state, addr |-> sim.lut_addr]
    /\ UNCHANGED lut_entries

Init ==
    /\ Constructed(Tables)
    /\ hw = HwIdle
    /\ pins = PinsLow
    /\ Shelved

Step ==
    \E reset_in \in BOOLEAN, exit_signal \in BOOLEAN :
        /\ Call(reset_in, exit_signal)
        /\ UNCHANGED <<hw, pins, fsm_config, lut_ram_config, fsm, last, written>>

Next == Step

Spec == Init /\ [][Next]_vars

\* reset released and left alone, exit_signal never asserted
InitLoop ==
    /\ Constructed(AllLoopTables)
    /\ hw = HwIdle
    /\ pins = PinsLow
    /\ Shelved

Run ==
    /\ Call(FALSE, FALSE)
    /\ UNCHANGED <<hw, pins, fsm_config, lut_ram_config, fsm, last, written>>

NextLoop == Run

SpecLoop == InitLoop /\ [][NextLoop]_vars

\* the engine and the emitted rules clocked from the same registers
InitDual ==
    /\ Constructed(DualTables)
    /\ hw = [r \in DOMAIN HwIdle |->
                IF r = "sequence_done_o" THEN sim.sequence_done ELSE RegsOf(sim)[r]]
    /\ pins = PinsLow
    /\ Shelved

ClockEdge ==
    \E reset_in \in BOOLEAN, exit_signal \in BOOLEAN,
       completion_signal \in BOOLEAN, undefined \in UndefinedWords :
        /\ Call(reset_in, exit_signal)
        /\ hw' = LET r == sv_clock(RegsOf(sim), reset_in, exit_signal,
                                   completion_signal, undefined)
                 IN  [f \in DOMAIN HwIdle |->
                        IF f = "sequence_done_o"
                        THEN (~reset_in /\ sequence_done_o(RegsOf(sim)))
                        ELSE r[f]]
        /\ UNCHANGED <<pins, fsm_config, lut_ram_config, fsm, last, written>>

NextDual == ClockEdge

SpecDual == InitDual /\ [][NextDual]_vars

\* the emitted module clocked on its own, its completion registers taking
\* either value at every edge
InitModule ==
    /\ Constructed(DualTables)
    /\ hw = HwIdle
    /\ pins = PinsLow
    /\ Shelved

Clock ==
    \E reset_in \in BOOLEAN, exit_signal_i \in BOOLEAN,
       completion_signal \in BOOLEAN, undefined \in UndefinedWords :
        /\ hw' = LET r == sv_clock(hw, reset_in, exit_signal_i,
                                   completion_signal, undefined)
                 IN  [f \in DOMAIN HwIdle |->
                        IF f = "sequence_done_o"
                        THEN (~reset_in /\ sequence_done_o(hw))
                        ELSE r[f]]
        /\ pins' = [reset_i |-> reset_in, exit_signal_i |-> exit_signal_i,
                    completion_signal |-> completion_signal]
        /\ from' = [state |-> hw.current_state_reg, addr |-> hw.lut_addr_reg,
                    timer |-> hw.data_length_timer]
        /\ UNCHANGED <<lut_entries, sim, resets, runs, dwell,
                       fsm_config, lut_ram_config, fsm, last, written>>

NextModule == Clock

SpecModule == InitModule /\ [][NextModule]_vars

\* FsmSimulator driven through set_inputs, step and write_lut_ram
InitFsm ==
    /\ Constructed({<< >>})
    /\ hw = HwIdle
    /\ pins = PinsLow
    /\ fsm_config \in Configs
    /\ lut_ram_config \in { LutConfig(entries) : entries \in LutFiles }
    /\ fsm = FsmSimulator(fsm_config, lut_ram_config)
    /\ last = Created
    /\ written = NoStream

SetInputs ==
    \E kwargs \in Kwargs :
        /\ fsm' = set_inputs(fsm, kwargs)
        /\ last' = [op |-> "set_inputs", raised |-> FALSE]
        /\ UNCHANGED <<lut_entries, sim, resets, runs, dwell, from, hw, pins,
                       fsm_config, lut_ram_config, written>>

FsmStep ==
    /\ fsm' = fsm_step(fsm_config, fsm)
    /\ last' = [op |-> "step", raised |-> step_raises(fsm_config, fsm)]
    /\ from' = [state |-> fsm.current_state_name, addr |-> fsm.lut_current_addr]
    /\ UNCHANGED <<lut_entries, sim, resets, runs, dwell, hw, pins,
                   fsm_config, lut_ram_config, written>>

\* the (address, next_state_name) arguments of the write_lut_ram calls: in
\* range with a known and an unknown state, below the range, above the range
WriteCalls ==
    { <<0, "FLUSH">>, <<0, "AED_DETECT">>, <<-1, "FLUSH">>, <<ram_depth, "FLUSH">> }

WriteLutRam ==
    \E call \in WriteCalls :
        /\ fsm' = write_lut_ram(fsm_config, fsm, call[1], call[2],
                                [repeat_count |-> 1, data_length |-> 1])
        /\ last' = [op |-> "write_lut_ram", raised |-> FALSE]
        /\ UNCHANGED <<lut_entries, sim, resets, runs, dwell, from, hw, pins,
                       fsm_config, lut_ram_config, written>>

NextFsm == SetInputs \/ FsmStep \/ WriteLutRam

SpecFsm == InitFsm /\ [][NextFsm]_vars

----------------------------------------------------------------------------
(* Properties *)

\* the latest step() call had reset_i asserted / deasserted
WasReset == resets > 0
WasStep  == resets = 0 /\ sim.cycle > 0

\* the engine's registers and done pulse, as the emitted module names them
Observed(s) ==
    [f \in DOMAIN HwIdle |->
        IF f = "sequence_done_o" THEN s.sequence_done ELSE RegsOf(s)[f]]

\* C1: clocked from the same registers with the same inputs and table, the
\* rules of the emitted module give the registers and the done pulse that
\* SequencerFSMSim.step gives
DualRealization == hw = Observed(sim)

\* C2: an entry with repeat_count = N > 0 whose next_state is a command state
\* has completed N - active_repeat_count countdowns while it is executed, and
\* exactly N + 1 when the engine has moved to IDLE to load another entry
RepeatExactness ==
    (sim.repeat_count > 0 /\ sim.next_state \in CommandStates) =>
        /\ sim.current_state \in CommandStates =>
              /\ runs = sim.repeat_count - sim.active_repeat_count
              /\ runs <= sim.repeat_count
        /\ sim.current_state = IDLE => runs = sim.repeat_count + 1

\* an entry with the largest repeat count and data length has been executed
RepeatExactnessWitness ==
    /\ sim.current_state = IDLE
    /\ sim.next_state \in CommandStates
    /\ sim.repeat_count = MaxRepeat
    /\ sim.data_length = MaxLen
    /\ runs = MaxRepeat + 1
    /\ from.state \in CommandStates

\* C3: sequence_done is asserted by exactly the steps that finish a pass, the
\* IDLE steps taken on the last entry (eof = 1)
DonePulsePerPass ==
    [][sim'.sequence_done <=> (sim.current_state = IDLE /\ sim.eof = 1)]_vars

\* address of the last configured entry of a sequence at 0 .. n-1
LastConfigured == Cardinality(DOMAIN lut_entries) - 1

\* C4: lut_addr never passes the address of the last configured entry
AddressWithinSpan == sim.lut_addr <= LastConfigured

\* C5: with neither reset nor exit_signal, a step taken while an entry with
\* repeat_count = 0 is executed or has just completed keeps lut_addr and the
\* loaded entry, and from IDLE re-enters the entry's command
InfiniteRepeatHolds ==
    [][(sim.repeat_count = 0 /\ sim.current_state # RST) =>
          /\ sim'.lut_addr = sim.lut_addr
          /\ sim'.next_state = sim.next_state
          /\ sim'.repeat_count = 0
          /\ sim.current_state = IDLE => sim'.current_state = sim.next_state]_vars

\* C6: a step that consults exit_signal for a completed entry with
\* repeat_count = 0 (IDLE, exit_signal asserted in that step) advances
\* lut_addr by one and consumes the request, so that it cannot advance again
ExitEscapesOnce ==
    [][(/\ sim.current_state = IDLE
        /\ sim.repeat_count = 0
        /\ sim.next_state \in CommandStates
        /\ resets' = 0
        /\ sim'.exit_signal) =>
          /\ sim'.lut_addr = (sim.lut_addr + 1) % Depth
          /\ ~sim'.exit_signal_latched]_vars

\* the three-entry table FLUSH / EXPOSE_TIME (repeat 2) / READOUT (eof)
IsScenario ==
    /\ DOMAIN lut_entries = 0 .. 2
    /\ lut_entries[0].repeat_count = 0
    /\ lut_entries[1].repeat_count = 2
    /\ lut_entries[2].repeat_count = 0

\* C7: on the three-entry table FLUSH completes once, EXPOSE_TIME three
\* times and READOUT once, and the step that resolves READOUT pulses
\* sequence_done and re-enters FLUSH from microcode[0]
ScenarioTrace ==
    [][IsScenario =>
          /\ (sim.current_state = IDLE /\ sim.next_state = "FLUSH") => runs = 1
          /\ (sim.current_state = IDLE /\ sim.next_state = "EXPOSE_TIME") => runs = 3
          /\ (sim.current_state = IDLE /\ sim.next_state = "READOUT") =>
                /\ runs = 1
                /\ sim'.sequence_done
                /\ sim'.current_state = "FLUSH"
                /\ sim'.next_state = "FLUSH"]_vars

\* C8: after a step with reset asserted the engine is in RST at address 0
\* with timer, repeat counter and exit latch cleared
ResetClears ==
    WasReset =>
        /\ sim.current_state = RST
        /\ sim.lut_addr = 0
        /\ sim.data_length_timer = 0
        /\ sim.active_repeat_count = 0
        /\ ~sim.exit_signal_latched

\* C9: a reset step that follows a reset step leaves every field of the
\* engine, the cycle counter included, as the first reset step left it
ResetIdempotent == [][(resets >= 1 /\ resets' >= 1) => sim' = sim]_vars

\* two consecutive reset steps on a table with a timed first entry, the
\* first of them taken while a command was running
ResetIdempotentWitness ==
    /\ resets = 2
    /\ 0 \in DOMAIN lut_entries
    /\ sim.data_length_timer = MaxLen
    /\ sim.cycle = 0

\* the word at address 0 as the table file gives it
WordAtZero ==
    IF 0 \in DOMAIN lut_entries
    THEN lut_entries[0]
    ELSE [next_state |-> RST, repeat_count |-> 1, data_length |-> 1,
          next_address |-> 0]

\* a step taken in RST without reset has loaded the word at address 0
LeftResetWith(addr) ==
    /\ sim.current_state = WordAtZero.next_state
    /\ sim.active_repeat_count = WordAtZero.repeat_count
    /\ sim.data_length_timer = WordAtZero.data_length
    /\ sim.lut_addr = addr

TimerGatesDwell ==
    [][(/\ sim.current_state \in CommandStates
        /\ sim.data_length_timer > 0
        /\ resets' = 0) =>
          /\ sim'.data_length_timer = sim.data_length_timer - 1
          /\ sim'.current_state = sim.current_state]_vars

\* the word at an address as the table file gives it
WordAt(a) ==
    IF a \in DOMAIN lut_entries
    THEN lut_entries[a]
    ELSE [next_state |-> RST, repeat_count |-> 1, data_length |-> 1,
          eof |-> 0, sof |-> 0, next_address |-> 0]

\* the engine's loaded fields are those of the word at address a
LoadedFrom(s, a) ==
    /\ s.next_state = WordAt(a).next_state
    /\ s.repeat_count = WordAt(a).repeat_count
    /\ s.data_length = WordAt(a).data_length
    /\ s.eof = WordAt(a).eof
    /\ s.sof = WordAt(a).sof

\* C13: when a step has taken the engine from a command state to IDLE,
\* lut_addr is a configured address and the entry there is the loaded one,
\* the entry that produced the command
AddressOnEnteringIdle ==
    (WasStep /\ from.state \in CommandStates /\ sim.current_state = IDLE) =>
        /\ sim.lut_addr \in DOMAIN lut_entries
        /\ LoadedFrom(sim, sim.lut_addr)

\* C14: a step without reset that starts in IDLE with the exit latch set on
\* a completed entry with repeat_count = 0 clears the latch, advances
\* lut_addr by one, and loads state, timer and repeat count from that address
IdleExitAdvance ==
    [][(/\ sim.current_state = IDLE
        /\ sim.repeat_count = 0
        /\ sim.exit_signal_latched
        /\ resets' = 0) =>
          /\ ~sim'.exit_signal_latched
          /\ sim'.lut_addr = (sim.lut_addr + 1) % Depth
          /\ sim'.current_state = WordAt(sim'.lut_addr).next_state
          /\ sim'.data_length_timer = WordAt(sim'.lut_addr).data_length
          /\ sim'.active_repeat_count = WordAt(sim'.lut_addr).repeat_count]_vars

\* C15: a step that ends with sequence_done set started in IDLE on an entry
\* with eof = 1 and ends at lut_addr = 0 with microcode[0] loaded
EndOfSequenceWrap ==
    [][(sim'.sequence_done /\ sim' # sim) =>
          /\ sim.current_state = IDLE
          /\ sim.eof = 1
          /\ sim'.lut_addr = 0
          /\ LoadedFrom(sim', 0)]_vars

\* the address a step that started in RST or IDLE has loaded its entry from
LoadAddress == IF from.state = RST THEN 0 ELSE sim.lut_addr

\* a step without reset has loaded a fresh entry
LoadedFresh == WasStep /\ from.state \in {RST, IDLE}

\* C16 as stated: after a step that loads a fresh entry,
\* active_repeat_count is that entry's repeat_count minus one
DecrementOnEntry ==
    LoadedFresh => sim.active_repeat_count = WordAt(LoadAddress).repeat_count - 1

\* C16 amended: after a step that loads a fresh entry, active_repeat_count
\* is that entry's repeat_count, not decremented
RepeatCountOnEntry ==
    LoadedFresh => sim.active_repeat_count = WordAt(LoadAddress).repeat_count

\* an IDLE step has loaded a command entry with the largest repeat count
RepeatCountOnEntryWitness ==
    /\ LoadedFresh
    /\ from.state = IDLE
    /\ sim.current_state \in CommandStates
    /\ sim.lut_addr \in DOMAIN lut_entries
    /\ sim.repeat_count = MaxRepeat
    /\ sim.active_repeat_count = MaxRepeat

\* C17: in a step without reset that does not start in IDLE, an exit request
\* latched before the step or asserted in it is latched after the step
ExitLatching ==
    [][(/\ resets' = 0
        /\ sim' # sim
        /\ sim.exit_signal_latched \/ sim'.exit_signal
        /\ sim.current_state # IDLE) =>
          sim'.exit_signal_latched]_vars

\* the latch is still set after a command step taken with exit_signal low
ExitLatchingWitness ==
    /\ WasStep
    /\ from.state \in CommandStates
    /\ sim.exit_signal_latched
    /\ ~sim.exit_signal
    /\ sim.cycle >= 3

\* C20: an entry whose next_state is IDLE keeps the engine on it while its
\* timer or its repeat counter is not 0: a step without reset loads no other
\* entry and leaves lut_addr alone
IdleEntryDwells ==
    [][(/\ sim.current_state = IDLE
        /\ sim.next_state = IDLE
        /\ sim.data_length_timer > 0 \/ sim.active_repeat_count > 0
        /\ resets' = 0
        /\ sim' # sim) =>
          /\ sim'.lut_addr = sim.lut_addr
          /\ sim'.next_state = IDLE
          /\ sim'.current_state = IDLE]_vars

\* the four registers of the module are the same after the edge as before
RegistersHeld ==
    /\ hw'.current_state_reg = hw.current_state_reg
    /\ hw'.lut_addr_reg = hw.lut_addr_reg
    /\ hw'.active_repeat_count = hw.active_repeat_count
    /\ hw'.data_length_timer = hw.data_length_timer

\* C12: an edge without reset that finds the module in a command state with
\* data_length_timer = 0 and the completion signal false changes no
\* register, and an edge takes a command state to IDLE only with the timer
\* at 0 and the completion signal true
NoAdvanceOnTimeout ==
    [][(hw.current_state_reg \in CommandStates /\ ~pins'.reset_i) =>
          /\ (hw.data_length_timer = 0 /\ ~pins'.completion_signal) => RegistersHeld
          /\ hw'.current_state_reg = IDLE =>
                (hw.data_length_timer = 0 /\ pins'.completion_signal)]_vars

\* the module has sat through an edge in a command state with the timer at 0
\* and no completion
NoAdvanceOnTimeoutWitness ==
    /\ hw.current_state_reg \in CommandStates
    /\ "timer" \in DOMAIN from
    /\ from.state = hw.current_state_reg
    /\ from.timer = 0
    /\ hw.data_length_timer = 0
    /\ ~pins.reset_i
    /\ ~pins.completion_signal
    /\ lut_ram(hw.lut_addr_reg).data_length > 0

\* C18: a step that starts in RST moves lut_current_addr on by one, modulo
\* the table depth, when lut_access_en_i is '1', in read mode and in write
\* mode, and leaves it alone when the enable is not '1'
ConfigurationAddressing ==
    [][(last'.op = "step" /\ fsm.current_state_name = RST) =>
          fsm'.lut_current_addr =
              IF get(fsm.current_inputs, "lut_access_en_i", py_none) = py_str(1)
              THEN (fsm.lut_current_addr + 1) % ram_depth
              ELSE fsm.lut_current_addr]_vars

\* a write-mode step in RST has wrapped the address from the last one to 0
ConfigurationAddressingWitness ==
    /\ last.op = "step"
    /\ from.state = RST
    /\ from.addr = ram_depth - 1
    /\ fsm.lut_current_addr = 0
    /\ fsm.current_state_name = RST
    /\ get(fsm.current_inputs, "lut_access_en_i", py_none) = py_str(1)
    /\ get(fsm.current_inputs, "lut_read_write_mode_i", py_none) = py_str(1)

\* C19: after a step that took the machine from a state other than RST into
\* RST, lut_current_addr is 0
RewindOnEnteringReset ==
    (from.state # RST /\ fsm.current_state_name = RST) => fsm.lut_current_addr = 0

\* RST was entered from IDLE with a configuration access having left the
\* address away from 0
RewindOnEnteringResetWitness ==
    /\ last.op = "step"
    /\ from.state = IDLE
    /\ from.addr # 0
    /\ fsm.current_state_name = RST
    /\ fsm.lut_current_addr = 0

\* the entries given to the packer: every state, field values at both ends
\* of their widths and one past them
CodecEntries ==
    { [address |-> ram_depth - 1, next_state |-> s, repeat_count |-> r,
       data_length |-> d, eof |-> e, sof |-> f] :
        s \in {IDLE, RST, "FLUSH", "EXPOSE_TIME"},
        r \in {0, 255, 256}, d \in {0, 65535}, e \in {0, 1}, f \in {0, 1, 2} }

\* FsmSimulator with the access pins declared, its table configured with
\* the words the packer builds from lut_entries
InitCodec ==
    /\ Constructed({<< >>})
    /\ hw = HwIdle
    /\ pins = PinsLow
    /\ fsm_config = Config(AccessInputs, py_int(1))
    /\ lut_ram_config \in { LutConfig(<<RstEntry, entry>>) : entry \in CodecEntries }
    /\ fsm = FsmSimulator(fsm_config, lut_ram_config)
    /\ last = Created
    /\ written = NoStream

\* a packed word is put on lut_write_data_i with the enable and the write
\* mode at '1'
DriveWord ==
    \E i \in 1 .. Len(lut_ram_config.lut_entries) :
        /\ fsm' = set_inputs(fsm,
                     [lut_access_en_i |-> py_str(1), lut_read_write_mode_i |-> py_str(1),
                      lut_write_data_i |->
                         py_int(get_lut_ram_initial_data_sv_format(
                                    fsm_config, lut_ram_config)[i][2])])
        /\ last' = [op |-> "set_inputs", raised |-> FALSE]
        /\ UNCHANGED <<lut_entries, sim, resets, runs, dwell, from, hw, pins,
                       fsm_config, lut_ram_config, written>>

NextCodec == DriveWord \/ FsmStep

SpecCodec == InitCodec /\ [][NextCodec]_vars

----------------------------------------------------------------------------

\* FsmSimulator with the access pins declared, configured by write steps
InitStream ==
    /\ Constructed({<< >>})
    /\ hw = HwIdle
    /\ pins = PinsLow
    /\ fsm_config \in { Config(AccessInputs, literal) : literal \in {py_str(1), py_int(1)} }
    /\ lut_ram_config \in { LutConfig(entries) : entries \in LutFiles }
    /\ fsm = FsmSimulator(fsm_config, lut_ram_config)
    /\ last = Created
    /\ written = NoStream

\* the run of write steps after a step from f to g: it starts empty, with
\* the table as it is, when the step enters RST; a write access that stays
\* in RST adds its word, up to one word per address; any other step ends it
Streamed(f, g) ==
    IF f.current_state_name # RST /\ g.current_state_name = RST
    THEN [open |-> TRUE, words |-> << >>, table |-> g.lut_ram_model]
    ELSE IF /\ written.open
            /\ Len(written.words) < ram_depth
            /\ f.current_state_name = RST
            /\ g.current_state_name = RST
            /\ get(f.current_inputs, "lut_access_en_i", py_none) = py_str(1)
            /\ get(f.current_inputs, "lut_read_write_mode_i", py_none) = py_str(1)
    THEN [written EXCEPT !.words =
            Append(@, get(f.current_inputs, "lut_write_data_i", py_int(0)).value)]
    ELSE NoStream

StreamStep ==
    /\ fsm' = fsm_step(fsm_config, fsm)
    /\ last' = [op |-> "step", raised |-> step_raises(fsm_config, fsm)]
    /\ from' = [state |-> fsm.current_state_name, addr |-> fsm.lut_current_addr]
    /\ written' = Streamed(fsm, fsm')
    /\ UNCHANGED <<lut_entries, sim, resets, runs, dwell, hw, pins,
                   fsm_config, lut_ram_config>>

NextStream == SetInputs \/ StreamStep

SpecStream == InitStream /\ [][NextStream]_vars

----------------------------------------------------------------------------

\* addresses the lut_entries list of the FsmSimulator configuration supplies
SuppliedAddresses ==
    { lut_ram_config.lut_entries[i].address : i \in 1 .. Len(lut_ram_config.lut_entries) }

\* C21: an address that was not supplied at load time holds the default
\* word: repeat_count, data_length, eof and sof all 0 and next_state RST or
\* IDLE, in the word SequencerFSMSim.load_lut_entry loads from it and in the
\* table FsmSimulator is constructed with
DefaultWord ==
    /\ (LoadedFresh /\ LoadAddress \notin DOMAIN lut_entries) =>
          /\ sim.repeat_count = 0
          /\ sim.data_length = 0
          /\ sim.eof = 0
          /\ sim.sof = 0
          /\ sim.next_state \in {RST, IDLE}
    /\ last = Created =>
          \A a \in (0 .. ram_depth - 1) \ SuppliedAddresses :
              /\ fsm.lut_ram_model[a].next_state \in {RST, IDLE}
              /\ \A n \in ParamNames : fsm.lut_ram_model[a].params[n] = 0

\* C28: sequence_done is true after a step only if the step had no reset,
\* started in IDLE on an entry with eof = 1 and found the exit request
\* latched or asserted; after every reset step, RST step and command-state
\* step it is false
SequenceDonePulse ==
    [][sim'.sequence_done =>
          /\ resets' = 0
          /\ sim.current_state = IDLE
          /\ sim.eof = 1
          /\ sim.exit_signal_latched \/ sim'.exit_signal]_vars

\* an IDLE step has raised sequence_done
SequenceDonePulseWitness ==
    /\ WasStep
    /\ from.state = IDLE
    /\ sim.sequence_done
    /\ sim.cycle >= 3

\* the table FsmSimulator would have been constructed with had the entries
\* outside the address range not been supplied
InRangeTable ==
    LET InRange(entry) == entry.address \in 0 .. ram_depth - 1
    IN  initialize_lut_ram_model(LutConfig(SelectSeq(lut_ram_config.lut_entries, InRange)))

\* C22: the table of FsmSimulator always has exactly the addresses
\* 0 .. 2^address_width - 1, whatever addresses the load and write_lut_ram
\* were given, and after the load every one of them holds what it would
\* hold had the entries outside the range not been supplied
OutOfRangeLoad ==
    /\ DOMAIN fsm.lut_ram_model = 0 .. ram_depth - 1
    /\ last = Created =>
          \A a \in 0 .. ram_depth - 1 : fsm.lut_ram_model[a] = InRangeTable[a]

\* C23: every entry of the FsmSimulator table names a state of the State
\* Table, at construction and after every write_lut_ram and step
StoredStatesExist ==
    \A a \in DOMAIN fsm.lut_ram_model :
        fsm.lut_ram_model[a].next_state \in state_names(fsm_config)

\* C24: the current state of FsmSimulator is always a state of the State
\* Table and no step raises
EngineDefined ==
    /\ fsm.current_state_name \in state_names(fsm_config)
    /\ ~last.raised

\* the step is a write access: RST with the enable and the write mode at '1'
WriteAccess ==
    /\ fsm.current_state_name = RST
    /\ get(fsm.current_inputs, "lut_access_en_i", py_none) = py_str(1)
    /\ get(fsm.current_inputs, "lut_read_write_mode_i", py_none) = py_str(1)

\* C25: a step changes no entry of the table, except that a step in RST
\* with the enable and the write mode asserted may change the entry at
\* lut_current_addr
TableReadOnly ==
    [][last'.op = "step" =>
          /\ DOMAIN fsm'.lut_ram_model = DOMAIN fsm.lut_ram_model
          /\ \A a \in DOMAIN fsm.lut_ram_model :
                \/ fsm'.lut_ram_model[a] = fsm.lut_ram_model[a]
                \/ WriteAccess /\ a = fsm.lut_current_addr]_vars

\* a write access has stored the FLUSH word at the last address of a table
\* loaded with address 0 only, and a read access after it has left the word
\* there
TableReadOnlyWitness ==
    /\ last.op = "step"
    /\ lut_ram_config.lut_entries = <<RstEntry>>
    /\ from.state = RST
    /\ from.addr = 0
    /\ fsm.lut_ram_model[ram_depth - 1].next_state = "FLUSH"
    /\ get(fsm.current_inputs, "lut_access_en_i", py_none) = py_str(1)
    /\ get(fsm.current_inputs, "lut_read_write_mode_i", py_none) = py_str(0)

\* C29: the state FsmSimulator.step moves to is the next_state the emitted
\* always_comb block assigns from the same state, inputs and table
NextStateAsEmitted ==
    [][(last'.op = "step" /\ ~last'.raised) =>
          \E undefined \in state_names(fsm_config) :
              fsm'.current_state_name =
                  always_comb_next_state(fsm_config, fsm, undefined)]_vars

\* C30: after a step, current_state_o is the encoding of the state the step
\* started in, busy_o is '1' exactly when that state is not IDLE, and
\* sequence_done_o is '1' exactly when the step took EXPOSE_TIME to IDLE
\* with eof = 1
HardCodedOutputs ==
    (last.op = "step" /\ ~last.raised) =>
        /\ fsm.current_outputs["current_state_o"] =
              get_state_encoding(fsm_config, from.state)
        /\ fsm.current_outputs["busy_o"] = (IF from.state # IDLE THEN "1" ELSE "0")
        /\ fsm.current_outputs["sequence_done_o"] =
              (IF /\ from.state = "EXPOSE_TIME"
                  /\ fsm.current_state_name = IDLE
                  /\ fsm.current_param_values["eof"] = 1
               THEN "1" ELSE "0")

\* the entry has every field within its declared width
WithinWidths(entry) ==
    \A k \in 1 .. Len(param_fields) :
        entry_params(entry)[param_fields[k].name] < 2 ^ param_fields[k].width

\* the entry with every field truncated to its declared width
Truncated(entry) ==
    [n \in DOMAIN entry |->
        IF n \in ParamNames
        THEN LET k == CHOOSE i \in 1 .. Len(param_fields) : param_fields[i].name = n
             IN  entry[n] % (2 ^ param_fields[k].width)
        ELSE entry[n]]

\* the word on lut_write_data_i is the one the packer built from entry i
Driven(i) ==
    get(fsm.current_inputs, "lut_write_data_i", py_none) =
        py_int(get_lut_ram_initial_data_sv_format(fsm_config, lut_ram_config)[i][2])

\* C26: a write access whose word the packer built from an entry with every
\* field within its width stores that entry's next_state and that entry's
\* value of every field
CodecRoundTrip ==
    [][\A i \in 1 .. Len(lut_ram_config.lut_entries) :
          (/\ last'.op = "step"
           /\ WriteAccess
           /\ Driven(i)
           /\ WithinWidths(lut_ram_config.lut_entries[i])) =>
              fsm'.lut_ram_model[fsm.lut_current_addr] =
                  [next_state |-> lut_ram_config.lut_entries[i].next_state,
                   params |-> entry_params(lut_ram_config.lut_entries[i])]]_vars

\* C27: the word the packer builds from an entry is the word it builds from
\* the same entry with every field truncated to its declared width
FieldOverflowMasked ==
    \A i \in 1 .. Len(lut_ram_config.lut_entries) :
        (last.op = "set_inputs" /\ Driven(i)) =>
            get(fsm.current_inputs, "lut_write_data_i", py_none) =
                py_int(total_data_value(fsm_config,
                                        Truncated(lut_ram_config.lut_entries[i])))

\* C31: a step that starts in IDLE moves to the next_state of the table
\* entry at command_id_i and loads that entry's parameters into the
\* parameter registers; if command_id_i is no address of the table the
\* machine stays in IDLE and the registers keep their values
IdleDispatch ==
    [][(last'.op = "step" /\ fsm.current_state_name = IDLE) =>
          LET cmd_id == get(fsm.current_inputs, "command_id_i", py_int(0)).value
          IN  IF cmd_id \in DOMAIN fsm.lut_ram_model
              THEN /\ fsm'.current_state_name = fsm.lut_ram_model[cmd_id].next_state
                   /\ fsm'.current_param_values = fsm.lut_ram_model[cmd_id].params
              ELSE /\ fsm'.current_state_name = IDLE
                   /\ fsm'.current_param_values = fsm.current_param_values]_vars

\* a step in IDLE has dispatched the command at the last address: the
\* machine is in EXPOSE_TIME with that entry's eof = 1 in the registers
IdleDispatchWitness ==
    /\ last.op = "step"
    /\ from.state = IDLE
    /\ get(fsm.current_inputs, "command_id_i", py_int(0)) = py_int(ram_depth - 1)
    /\ fsm.current_state_name = "EXPOSE_TIME"
    /\ fsm.current_param_values = entry_params(ExposeEntry)

\* C32: a step that starts in a state other than IDLE leaves the parameter
\* registers as they were, also when it writes the table entry they were
\* loaded from
ParametersHeld ==
    [][(last'.op = "step" /\ fsm.current_state_name # IDLE) =>
          fsm'.current_param_values = fsm.current_param_values]_vars

\* a write access in RST has replaced the entry at address 0 the registers
\* were loaded from, and the registers still hold the entry as loaded
ParametersHeldWitness ==
    /\ last.op = "step"
    /\ from.state = RST
    /\ from.addr = 0
    /\ lut_ram_config.lut_entries = <<RstEntry>>
    /\ get(fsm.current_inputs, "command_id_i", py_int(0)) = py_int(0)
    /\ get(fsm.current_inputs, "lut_access_en_i", py_none) = py_str(1)
    /\ get(fsm.current_inputs, "lut_read_write_mode_i", py_none) = py_str(1)
    /\ fsm.current_param_values = entry_params(RstEntry)
    /\ fsm.lut_ram_model[0].params # entry_params(RstEntry)

\* the IDLE rule of the emitted module takes its end-of-sequence branch at
\* this edge: no repeat left, no exit of an infinite repeat, eof set
WrapTaken(r, exit_signal_i) ==
    LET current == lut_ram(r.lut_addr_reg)
    IN  /\ r.current_state_reg = IDLE
        /\ r.active_repeat_count = 0
        /\ ~(current.repeat_count = 0 /\ exit_signal_i)
        /\ current.eof = 1

\* C33: in a cycle of the emitted module that ends in a clock edge without
\* reset, sequence_done_o is asserted exactly when the module is in IDLE
\* and the edge takes the end-of-sequence branch
EmittedSequenceDone ==
    [][~pins'.reset_i =>
          (sequence_done_o(hw) <=> WrapTaken(hw, pins'.exit_signal_i))]_vars

\* C38: the widths computed for data_length_timer and active_repeat_count
\* are at least 1 and wide enough for the largest data_length and the
\* largest repeat_count of the table
CounterWidths ==
    /\ data_length_width >= 1
    /\ 2 ^ data_length_width - 1 >= max_data_length
    /\ repeat_count_width >= 1
    /\ 2 ^ repeat_count_width - 1 >= max_repeat_count

\* C36: lut_addr of SequencerFSMSim is always an address of the table,
\* 0 .. 2^address_width - 1
AddressInRange ==
    sim.lut_addr \in 0 .. Depth - 1

\* C37: whenever SequencerFSMSim is in RST its lut_addr is 0
ResetStateAtZero ==
    sim.current_state = RST => sim.lut_addr = 0

\* steps a command with the loaded repeat_count and data_length takes:
\* (repeat_count + 1) * max(data_length, 1)
CommandSteps ==
    (sim.repeat_count + 1) * (IF sim.data_length > 1 THEN sim.data_length ELSE 1)

Decoded(w) ==
    [next_state |-> next_state_from_data(fsm_config, w), params |-> params_from_data(w)]

\* C34: after k write steps in a row since FsmSimulator entered RST, k at
\* most the depth, address i holds the decoded i-th word for every i < k,
\* every other address holds what it held on entering RST, and
\* lut_current_addr is k mod depth
StreamingConfiguration ==
    written.open =>
        LET k == Len(written.words)
        IN  /\ DOMAIN fsm.lut_ram_model = DOMAIN written.table
            /\ \A a \in DOMAIN written.table :
                   fsm.lut_ram_model[a] =
                       IF a \in 0 .. k - 1 THEN Decoded(written.words[a + 1])
                       ELSE written.table[a]
            /\ fsm.lut_current_addr = k % ram_depth

\* every address has been written in one run, the first and the last with
\* different words, and the address is back at 0
StreamingConfigurationWitness ==
    /\ written.open
    /\ Len(written.words) = ram_depth
    /\ written.words[1] # written.words[ram_depth]
    /\ fsm.lut_current_addr = 0
    /\ fsm.lut_ram_model[0] # written.table[0]

====
